---- MODULE Spec2Model ----
(***************************************************************************)
(* Model of the multi-stop route sequencing engine of the ml-service:      *)
(* RouteOptimizer in src/ml-service/services/route_optimization.py.        *)
(*                                                                         *)
(* Location strings are sequences of character codes (ord values), so the  *)
(* hash of _estimate_distance is computed as the code computes it.         *)
(* Numbers the code rounds to two decimals are held in hundredths, numbers *)
(* it rounds to one decimal in tenths. The elapsed times are held as the   *)
(* binary64 floats the code computes, and estimated_arrival as the string  *)
(* it formats from them.                                                   *)
(***************************************************************************)
EXTENDS Integers, Sequences, FiniteSets, TLC

VARIABLES
    stops,            \* the caller's list of stop dicts, argument of optimize
    start_location,   \* the start_location argument of optimize
    pc,               \* position of the call: "idle" | "called" | "done" for
                      \* optimize, "estimating" | "estimated" for the oracle
    result,           \* the dict optimize returned, or the exception it raised
    calls,            \* methods of RouteOptimizer entered by the current call
    chosen_route,     \* the order the sequencer chose and handed to
                      \* _format_route_response (best_route, route)
    avg_speed_kmh,    \* RouteOptimizer.avg_speed_kmh of the singleton
    loc1,             \* first argument of a direct _estimate_distance call
    loc2,             \* second argument of a direct _estimate_distance call
    distance,         \* value returned by that call, None before it returns
    earlier,          \* an earlier, completed call of optimize kept for
                      \* comparison: <<>> or <<[stops, start_location, result]>>
    requests,         \* the requests two or more threads have in flight on
                      \* the singleton, each with its own locals
    frame             \* the locals of the sequencer the current call is
                      \* inside of, when its loop is followed step by step

vars == <<stops, start_location, pc, result, calls, chosen_route,
          avg_speed_kmh, loc1, loc2, distance, earlier, requests, frame>>

None == "None"

-----------------------------------------------------------------------------
(* Bounds of the model *)

\* longest stop list handed to optimize
MaxStops == 9
\* stop lists up to this length are drawn freely from StopPool
MaxFreeStops == 3
\* longest location string handed to _estimate_distance directly
MaxStrLen == 2
\* stop lists up to this length are drawn freely when calls are repeated
MaxRepeatStops == 2
\* number of requests in flight at once on the singleton
NumRequests == 2
\* most shipment ids in one request to the HTTP handler
MaxShipments == 10
\* requests up to this many shipment ids are drawn freely
MaxFreeIds == 4

-----------------------------------------------------------------------------
(* Location strings, as sequences of character codes *)

LocStart == <<83, 116, 97, 114, 116>>   \* "Start"
LocA == <<65>>                          \* "A"
LocB == <<66>>                          \* "B"
LocC == <<67>>                          \* "C"

\* character codes of the strings handed to _estimate_distance directly:
\* "A", "B", "C" and U+0203, whose code exceeds that of "A" by 450
Alphabet == {65, 66, 67, 515}

Strings == UNION {[1..n -> Alphabet] : n \in 0..MaxStrLen}

\* the stop dicts the requests are built from
StopPool ==
    << [shipment_id |-> "s1", location |-> LocA],
       [shipment_id |-> "s2", location |-> LocB],
       [shipment_id |-> "s3", location |-> LocC],
       [shipment_id |-> "s4", location |-> LocStart],
       [shipment_id |-> "s1", location |-> LocB] >>

StartLocations == {LocStart, LocA}

\* a list of n stops that walks StopPool cyclically from entry k
CyclicStops(n, k) ==
    [i \in 1..n |-> StopPool[((k - 1 + (i - 1)) % Len(StopPool)) + 1]]

\* a list of n copies of entry k of StopPool
RepeatedStops(n, k) == [i \in 1..n |-> StopPool[k]]

\* the entries of StopPool the longer lists start from: one for the lengths
\* the exhaustive search handles, every entry above them
LongListEntries(n) == IF n <= 8 THEN {1} ELSE 1..Len(StopPool)

\* the stop lists handed to optimize: every list over StopPool up to
\* MaxFreeStops stops, and cyclic and repeated lists up to MaxStops stops
StopLists ==
    UNION {[1..n -> {StopPool[j] : j \in 1..Len(StopPool)}] :
               n \in 0..MaxFreeStops}
    \cup UNION {{CyclicStops(n, k) : k \in LongListEntries(n)} :
                   n \in (MaxFreeStops + 1)..MaxStops}
    \cup UNION {{RepeatedStops(n, k) : k \in 1..Len(StopPool)} :
                   n \in 9..MaxStops}

\* U+0203, the character whose code exceeds that of "A" by 450
LocFar == <<515>>

\* three stops at "A", "B" and U+0203: from "A" the nearest stop after "A"
\* is U+0203, 50 away, and "B" is then 499 away
TrapStops ==
    << [shipment_id |-> "s1", location |-> LocA],
       [shipment_id |-> "s2", location |-> LocB],
       [shipment_id |-> "s3", location |-> LocFar] >>

\* the stop lists handed to _nearest_neighbor_optimize directly
GreedyLists == StopLists \cup {TrapStops}

\* the stop lists of the repeated calls: every list of up to MaxRepeatStops
\* stops at "A", "B" and "Start", and two lists of 9 stops
RepeatLists ==
    UNION {[1..n -> {StopPool[1], StopPool[2], StopPool[4]}] :
               n \in 0..MaxRepeatStops}
    \cup {CyclicStops(9, 1), RepeatedStops(9, 4)}

\* the stop lists of the requests in flight together: the two degenerate
\* lengths, two exhaustive-search lists (one that fails) and a heuristic list
ConcurrentLists ==
    {<<>>, <<StopPool[1]>>, <<StopPool[1], StopPool[2]>>,
     <<StopPool[4], StopPool[4]>>, CyclicStops(9, 1)}

\* "Location "
LocPrefix == <<76, 111, 99, 97, 116, 105, 111, 110, 32>>

RECURSIVE Decimal(_)
\* the decimal digits of i >= 0, as the f-string formats an int
Decimal(i) ==
    IF i < 10 THEN <<48 + i>> ELSE Decimal(i \div 10) \o <<48 + (i % 10)>>

\* every shipment is given the location of the first one
LocationNameFirst(i) == LocPrefix \o Decimal(1)

\* f"Location {i+1}" for the (i+1)-th shipment id: LocationName(k) names the
\* location of the k-th, k from 1
LocationName(k) == LocPrefix \o Decimal(k)

\* the stops optimize_route builds from request.shipment_ids
BuildStops(shipment_ids) ==
    [k \in 1..Len(shipment_ids) |->
        [shipment_id |-> shipment_ids[k], location |-> LocationName(k)]]

\* the shipment id lists of the requests: every list of "s1" and "s2" up to
\* MaxFreeIds ids, and one alternating list of each length from 9, where
\* the heuristic takes over, to MaxShipments
ShipmentIdLists ==
    UNION {[1..n -> {"s1", "s2"}] : n \in 0..MaxFreeIds}
    \cup {[k \in 1..n |-> IF k % 2 = 1 THEN "s1" ELSE "s2"] :
              n \in 9..MaxShipments}

\* the start locations of the requests: "Start" and the names the handler
\* gives to the first two shipments
RequestStarts == {LocStart, LocPrefix \o <<49>>, LocPrefix \o <<50>>}

-----------------------------------------------------------------------------
(* Arithmetic helpers *)

Abs(x) == IF x < 0 THEN 0 - x ELSE x

\* num / den cut off after the digits instead of rounded
RoundDown(num, den, scale) == (num * scale) \div den

\* round(num / den, digits) for num >= 0, den > 0, in units of 1 / scale
\* (scale = 10 ^ digits), ties to even
RoundScaled(num, den, scale) ==
    LET q == (num * scale) \div den
        r == (num * scale) % den
    IN  IF 2 * r > den THEN q + 1
        ELSE IF 2 * r < den THEN q
        ELSE IF q % 2 = 0 THEN q ELSE q + 1

Round2(num, den) == RoundScaled(num, den, 100)

Round1(num, den) == RoundScaled(num, den, 10)

RECURSIVE SumCodes(_)
\* sum(ord(c) for c in loc)
SumCodes(loc) ==
    IF loc = <<>> THEN 0 ELSE Head(loc) + SumCodes(Tail(loc))

-----------------------------------------------------------------------------
(* Python floats (IEEE 754 binary64) of the elapsed times. A value is a    *)
(* multiple of 2^-53 below 256, held as three limbs <<a, b, c>> that stand *)
(* for (a * 2^40 + b * 2^20 + c) * 2^-53 with b, c < 2^20: exact for 0 and *)
(* for every binary64 value from 1/2 up to 256 (53 significant bits). The  *)
(* times of the model lie in that range: a leg is 0 or at least 50 km, at  *)
(* 50 or 60 km/h.                                                          *)

Limb == 2 ^ 20

FloatZero == <<0, 0, 0>>

\* F of the value of e: e is evaluated one time, however often F uses it
Once(e, F(_)) == CHOOSE r \in {F(v) : v \in {e}} : TRUE

\* the limbs after the carries have moved up
Carry(t) ==
    Once(t, LAMBDA v :
        LET mid == v[2] + (v[3] \div Limb)
        IN  <<v[1] + (mid \div Limb), mid % Limb, v[3] % Limb>>)

\* four times a value: the same value in units of 2^-55
Fourfold(t) == Once(t, LAMBDA v : Carry(<<4 * v[1], 4 * v[2], 4 * v[3]>>))

\* a quarter of a value whose lowest two bits are 0
Quarter(t) ==
    Once(t, LAMBDA v :
        <<v[1] \div 4,
          (v[2] \div 4) + (v[1] % 4) * (Limb \div 4),
          (v[3] \div 4) + (v[2] % 4) * (Limb \div 4)>>)

\* the number of bits of a >= 1
BitLength(a) ==
    Once(a, LAMBDA v :
        CHOOSE e \in 1..31 : 2 ^ (e - 1) <= v /\ (e = 31 \/ v < 2 ^ e))

\* round-to-nearest, ties-to-even, to 53 significant bits, of a value t in
\* units of 2^-55 that is 0 or at least 1/2; sticky says that the exact
\* value exceeds t. The result is in units of 2^-53.
RoundToDouble(t, sticky) ==
    Once(t, LAMBDA v :
        IF v[1] = 0
        THEN Quarter(v)
        ELSE Once(2 ^ (BitLength(v[1]) - 13), LAMBDA unit :
                 LET low == v[3] % unit
                     odd == (v[3] \div unit) % 2 = 1
                     up == \/ 2 * low > unit
                           \/ 2 * low = unit /\ (sticky \/ odd)
                 IN  Quarter(Carry(<<v[1], v[2],
                                     v[3] - low
                                         + (IF up THEN unit ELSE 0)>>))))

\* num / den for ints num >= 0, 0 < den < 2048: the binary64 nearest the
\* quotient, by long division to 55 fraction bits
FloatDiv(num, den) ==
    Once(num, LAMBDA n :
        LET r0 == n % den
            a == (n \div den) * (2 ^ 15) + ((r0 * (2 ^ 15)) \div den)
            r1 == (r0 * (2 ^ 15)) % den
            b == (r1 * Limb) \div den
            r2 == (r1 * Limb) % den
            c == (r2 * Limb) \div den
            r3 == (r2 * Limb) % den
        IN  RoundToDouble(<<a, b, c>>, r3 # 0))

\* x + y for two floats
FloatAdd(x, y) ==
    Once(<<x, y>>, LAMBDA v :
        RoundToDouble(Fourfold(<<v[1][1] + v[2][1], v[1][2] + v[2][2],
                                 v[1][3] + v[2][3]>>),
                      FALSE))

\* round(10 * x) for a float x, ties to even on the exact value of x: the
\* number f"{x:.1f}" prints, in tenths
Tenths(x) ==
    Once(Carry(<<10 * x[1], 10 * x[2], 10 * x[3]>>), LAMBDA tenfold :
        LET whole == tenfold[1] \div (2 ^ 13)
            rest == tenfold[1] % (2 ^ 13)
            below == tenfold[2] # 0 \/ tenfold[3] # 0
            up == \/ rest > 2 ^ 12
                  \/ rest = 2 ^ 12 /\ (below \/ whole % 2 = 1)
        IN  IF up THEN whole + 1 ELSE whole)

\* f"+{x:.1f}h" for a float x, as character codes
ArrivalString(x) ==
    Once(Tenths(x), LAMBDA tenths :
        <<43>> \o Decimal(tenths \div 10) \o <<46, 48 + (tenths % 10), 104>>)

-----------------------------------------------------------------------------
(* RouteOptimizer *)

\* _estimate_distance without the absolute value of the hash difference
EstimateDistanceNoAbs(a, b) ==
    IF a = b THEN 0 ELSE 50 + ((SumCodes(a) - SumCodes(b)) % 450)

\* _estimate_distance with the base distance left out
EstimateDistanceNoBase(a, b) ==
    IF a = b THEN 0 ELSE Abs(SumCodes(a) - SumCodes(b)) % 450

\* _estimate_distance without the wrap at 450: the distance grows with the
\* hash difference
EstimateDistanceNoWrap(a, b) ==
    IF a = b THEN 0 ELSE 50 + Abs(SumCodes(a) - SumCodes(b))

_estimate_distance(a, b) ==
    IF a = b
    THEN 0
    ELSE LET hash1 == SumCodes(a)
             hash2 == SumCodes(b)
         IN  50 + (Abs(hash1 - hash2) % 450)

\* _calculate_total_distance with a leg back to the start after the last stop
CalcClosedTour(route, start) ==
    LET RECURSIVE Walk(_, _)
        Walk(i, current) ==
            IF i > Len(route)
            THEN _estimate_distance(current, start)
            ELSE _estimate_distance(current, route[i].location)
                 + Walk(i + 1, route[i].location)
    IN  IF route = <<>> THEN 0 ELSE Walk(1, start)

RECURSIVE CalcFrom(_, _, _)
\* the loop of _calculate_total_distance from position i with current location
CalcFrom(route, i, current) ==
    IF i > Len(route)
    THEN 0
    ELSE _estimate_distance(current, route[i].location)
         + CalcFrom(route, i + 1, route[i].location)

_calculate_total_distance(route, start) == CalcFrom(route, 1, start)

\* list.remove(x) that drops every element equal to x
RemoveAll(seq, x) == SelectSeq(seq, LAMBDA e : e # x)

\* list.remove(x): drops the first element equal to x
RemoveFirst(seq, x) ==
    LET i == CHOOSE j \in 1..Len(seq) :
                 seq[j] = x /\ \A k \in 1..(j - 1) : seq[k] # x
    IN  SubSeq(seq, 1, i - 1) \o SubSeq(seq, i + 1, Len(seq))

\* min(unvisited, key=...) that keeps the last element of least key
NearestLast(unvisited, current) ==
    LET key(j) == _estimate_distance(current, unvisited[j].location)
        i == CHOOSE j \in 1..Len(unvisited) :
                 /\ \A k \in 1..Len(unvisited) : key(j) <= key(k)
                 /\ \A k \in (j + 1)..Len(unvisited) : key(k) > key(j)
    IN  unvisited[i]

\* min(unvisited, key=distance from current): the first element of least key
Nearest(unvisited, current) ==
    LET key(j) == _estimate_distance(current, unvisited[j].location)
        i == CHOOSE j \in 1..Len(unvisited) :
                 /\ \A k \in 1..Len(unvisited) : key(j) <= key(k)
                 /\ \A k \in 1..(j - 1) : key(k) > key(j)
    IN  unvisited[i]

RECURSIVE FormatStopsFromStart(_, _, _, _, _)
\* the loop of _format_route_response with current_location never advanced:
\* every distance is measured from where the loop started
FormatStopsFromStart(route, idx, current_location, current_time, speed) ==
    IF idx >= Len(route)
    THEN <<>>
    ELSE LET stop == route[idx + 1]
             distance_from_prev ==
                 _estimate_distance(current_location, stop.location)
             travel_time == FloatDiv(distance_from_prev, speed)
         IN  Once(FloatAdd(current_time, travel_time), LAMBDA now :
                 << [shipment_id |-> stop.shipment_id,
                     sequence |-> idx + 1,
                     location |-> stop.location,
                     estimated_arrival |-> ArrivalString(now),
                     distance_from_previous |->
                         Round2(distance_from_prev, 1)] >>
                 \o FormatStopsFromStart(route, idx + 1, current_location, now, speed))

RECURSIVE FormatStops(_, _, _, _, _)
\* the loop of _format_route_response from index idx (0-based), with the
\* current location and the float current_time
FormatStops(route, idx, current_location, current_time, speed) ==
    IF idx >= Len(route)
    THEN <<>>
    ELSE LET stop == route[idx + 1]
             distance_from_prev ==
                 _estimate_distance(current_location, stop.location)
             travel_time == FloatDiv(distance_from_prev, speed)
         IN  Once(FloatAdd(current_time, travel_time), LAMBDA now :
                 << [shipment_id |-> stop.shipment_id,
                     sequence |-> idx + 1,
                     location |-> stop.location,
                     estimated_arrival |-> ArrivalString(now),
                     distance_from_previous |->
                         Round2(distance_from_prev, 1)] >>
                 \o FormatStops(route, idx + 1, stop.location, now, speed))

_format_route_response(route, start, total_distance, speed) ==
    LET optimized_stops == FormatStops(route, 0, start, FloatZero, speed)
        unoptimized_distance == _calculate_total_distance(route, start)
    IN  IF unoptimized_distance = 0
        THEN [status |-> "ZeroDivisionError"]
        ELSE [status |-> "ok",
              optimized_sequence |-> optimized_stops,
              total_distance_km |-> Round2(total_distance, 1),
              total_time_hours |-> Round2(total_distance, speed),
              fuel_savings_percent |->
                  IF unoptimized_distance - total_distance <= 0
                  THEN 0
                  ELSE Round1((unoptimized_distance - total_distance) * 100,
                              unoptimized_distance)]

\* the empty list sent through the general formatter instead of _empty_route
EmptyRouteViaFormat == _format_route_response(<<>>, <<>>, 0, 60)

_empty_route ==
    [status |-> "ok",
     optimized_sequence |-> <<>>,
     total_distance_km |-> 0,
     total_time_hours |-> 0,
     fuel_savings_percent |-> 0]

\* the single stop sent through the general formatter instead of
\* _single_stop_route
SingleStopViaFormat(stop, start, speed) ==
    _format_route_response(<<stop>>, start,
                           _estimate_distance(start, stop.location), speed)

_single_stop_route(stop, start, speed) ==
    LET d == _estimate_distance(start, stop.location)
    IN  [status |-> "ok",
         optimized_sequence |->
             << [shipment_id |-> stop.shipment_id,
                 sequence |-> 1,
                 location |-> stop.location,
                 estimated_arrival |-> ArrivalString(FloatDiv(d, speed)),
                 distance_from_previous |-> Round2(d, 1)] >>,
         total_distance_km |-> Round2(d, 1),
         total_time_hours |-> Round2(d, speed),
         fuel_savings_percent |-> 0]

\* float('inf')
Infinity == -1

\* distance > best_distance: the search keeps the longest permutation
Greater(d, best) == best = Infinity \/ d > best

\* distance <= best_distance: a later permutation of equal cost wins
LessOrEqual(d, best) == best = Infinity \/ d <= best

\* distance < best_distance
Less(d, best) == best = Infinity \/ d < best

\* the body of the loop of _brute_force_optimize for one permutation, given
\* as the tuple of input positions itertools.permutations yields
TryPermutation(stops_, start, perm, acc) ==
    LET route == [i \in 1..Len(perm) |-> stops_[perm[i]]]
        d == _calculate_total_distance(route, start)
    IN  IF Less(d, acc.best_distance)
        THEN [best_distance |-> d, best_route |-> route,
              evaluated |-> acc.evaluated + 1]
        ELSE [acc EXCEPT !.evaluated = @ + 1]

RECURSIVE Permute(_, _, _, _, _, _)
\* for perm in itertools.permutations(stops): the permutations that extend
\* prefix, in lexicographic order of input positions; todo holds the
\* positions not yet tried as the next element
Permute(stops_, start, prefix, rest, todo, acc) ==
    IF acc.evaluated >= 0 /\ rest = {}
    THEN TryPermutation(stops_, start, prefix, acc)
    ELSE IF todo = {}
    THEN acc
    ELSE LET i == CHOOSE j \in todo : \A k \in todo : j <= k
         IN  Permute(stops_, start, prefix, rest, todo \ {i},
                     Permute(stops_, start, Append(prefix, i),
                             rest \ {i}, rest \ {i}, acc))

\* the search with the first stop of the input kept first: only the
\* permutations of the other stops are tried
BruteForceSearchFirstFixed(stops_, start) ==
    Permute(stops_, start, <<1>>, 2..Len(stops_), 2..Len(stops_),
            [best_distance |-> Infinity, best_route |-> None, evaluated |-> 0])

\* the search of _brute_force_optimize: best_route, best_distance and the
\* number of permutations evaluated
BruteForceSearch(stops_, start) ==
    Permute(stops_, start, <<>>, 1..Len(stops_), 1..Len(stops_),
            [best_distance |-> Infinity, best_route |-> None, evaluated |-> 0])

\* _brute_force_optimize: the order it hands to the formatter and what the
\* formatter returns or raises
_brute_force_optimize(stops_, start, speed) ==
    LET found == BruteForceSearch(stops_, start)
    IN  [route |-> found.best_route,
         response |-> _format_route_response(found.best_route, start,
                                             found.best_distance, speed)]

RECURSIVE GreedyLoopAfterMove(_, _, _, _)
\* the while loop with the distance measured after current_location has
\* moved to the nearest stop, so that every leg counts 0
GreedyLoopAfterMove(unvisited, route, current_location, total_distance) ==
    IF unvisited = <<>>
    THEN [route |-> route, total_distance |-> total_distance]
    ELSE LET nearest == Nearest(unvisited, current_location)
             d == _estimate_distance(nearest.location, nearest.location)
         IN  GreedyLoopAfterMove(RemoveFirst(unvisited, nearest),
                                 Append(route, nearest),
                                 nearest.location,
                                 total_distance + d)

RECURSIVE GreedyLoop(_, _, _, _)
\* the while loop of _nearest_neighbor_optimize
GreedyLoop(unvisited, route, current_location, total_distance) ==
    IF unvisited = <<>>
    THEN [route |-> route, total_distance |-> total_distance]
    ELSE LET nearest == Nearest(unvisited, current_location)
             d == _estimate_distance(current_location, nearest.location)
         IN  GreedyLoop(RemoveFirst(unvisited, nearest),
                        Append(route, nearest),
                        nearest.location,
                        total_distance + d)

\* _nearest_neighbor_optimize: the order it hands to the formatter and what
\* the formatter returns or raises
_nearest_neighbor_optimize(stops_, start, speed) ==
    LET built == GreedyLoop(stops_, <<>>, start, 0)
    IN  [route |-> built.route,
         response |-> _format_route_response(built.route, start,
                                             built.total_distance, speed)]

\* len(stops) < 8: the exhaustive search stops one short of the threshold
IsSmallStrict(stops_) == Len(stops_) < 8

\* the test of optimize that selects the exhaustive search: len(stops) <= 8
IsSmall(stops_) == Len(stops_) <= 8

-----------------------------------------------------------------------------
(* Calls of RouteOptimizer.optimize on the singleton *)

Init ==
    /\ stops = <<>>
    /\ start_location = <<>>
    /\ pc = "idle"
    /\ result = None
    /\ calls = {}
    /\ chosen_route = <<>>
    /\ avg_speed_kmh = 60
    /\ loc1 = <<>>
    /\ loc2 = <<>>
    /\ distance = None
    /\ earlier = <<>>
    /\ requests = <<>>
    /\ frame = <<>>

\* a caller invokes optimizer.optimize(stops, start_location)
Call ==
    /\ pc = "idle"
    /\ \E s \in StopLists, st \in StartLocations :
           /\ stops' = s
           /\ start_location' = st
    /\ pc' = "called"
    /\ result' = None
    /\ calls' = {"optimize"}
    /\ chosen_route' = <<>>
    /\ UNCHANGED <<avg_speed_kmh, loc1, loc2, distance,
                   earlier, requests, frame>>

\* optimize, len(stops) == 0
OptimizeEmpty ==
    /\ pc = "called"
    /\ Len(stops) = 0
    /\ result' = _empty_route
    /\ calls' = calls \cup {"_empty_route"}
    /\ pc' = "done"
    /\ UNCHANGED <<stops, start_location, chosen_route, avg_speed_kmh,
                   loc1, loc2, distance,
                   earlier, requests, frame>>

\* optimize without the len(stops) == 1 case: the single stop goes to the
\* exhaustive search
OptimizeSingleGeneral ==
    /\ pc = "called"
    /\ Len(stops) # 0
    /\ Len(stops) = 1
    /\ \E out \in {_brute_force_optimize(stops, start_location,
                                         avg_speed_kmh)} :
           /\ chosen_route' = out.route
           /\ result' = out.response
    /\ calls' = calls \cup {"_brute_force_optimize", "_format_route_response"}
    /\ pc' = "done"
    /\ UNCHANGED <<stops, start_location, avg_speed_kmh, loc1, loc2, distance,
                   earlier, requests, frame>>

\* optimize, len(stops) == 1
OptimizeSingle ==
    /\ pc = "called"
    /\ Len(stops) # 0
    /\ Len(stops) = 1
    /\ result' = _single_stop_route(stops[1], start_location, avg_speed_kmh)
    /\ calls' = calls \cup {"_single_stop_route"}
    /\ pc' = "done"
    /\ UNCHANGED <<stops, start_location, chosen_route, avg_speed_kmh,
                   loc1, loc2, distance,
                   earlier, requests, frame>>

\* optimize, len(stops) <= 8
OptimizeBruteForce ==
    /\ pc = "called"
    /\ Len(stops) # 0
    /\ Len(stops) # 1
    /\ IsSmall(stops)
    /\ \E out \in {_brute_force_optimize(stops, start_location,
                                         avg_speed_kmh)} :
           /\ chosen_route' = out.route
           /\ result' = out.response
    /\ calls' = calls \cup {"_brute_force_optimize", "_format_route_response"}
    /\ pc' = "done"
    /\ UNCHANGED <<stops, start_location, avg_speed_kmh, loc1, loc2, distance,
                   earlier, requests, frame>>

\* optimize, otherwise, with the heuristic path lowering the speed kept on
\* the singleton
OptimizeNearestNeighborSlower ==
    /\ pc = "called"
    /\ Len(stops) # 0
    /\ Len(stops) # 1
    /\ ~IsSmall(stops)
    /\ avg_speed_kmh' = 50
    /\ \E out \in {_nearest_neighbor_optimize(stops, start_location, 50)} :
           /\ chosen_route' = out.route
           /\ result' = out.response
    /\ calls' = calls \cup {"_nearest_neighbor_optimize",
                            "_format_route_response"}
    /\ pc' = "done"
    /\ UNCHANGED <<stops, start_location, loc1, loc2, distance,
                   earlier, requests, frame>>

\* optimize, otherwise, with unvisited bound to the caller's list instead of
\* a copy of it: the loop removes every stop from the caller's list
OptimizeNearestNeighborInPlace ==
    /\ pc = "called"
    /\ Len(stops) # 0
    /\ Len(stops) # 1
    /\ ~IsSmall(stops)
    /\ \E out \in {_nearest_neighbor_optimize(stops, start_location,
                                              avg_speed_kmh)} :
           /\ chosen_route' = out.route
           /\ result' = out.response
    /\ stops' = <<>>
    /\ calls' = calls \cup {"_nearest_neighbor_optimize",
                            "_format_route_response"}
    /\ pc' = "done"
    /\ UNCHANGED <<start_location, avg_speed_kmh, loc1, loc2, distance,
                   earlier, requests, frame>>

\* optimize, otherwise
OptimizeNearestNeighbor ==
    /\ pc = "called"
    /\ Len(stops) # 0
    /\ Len(stops) # 1
    /\ ~IsSmall(stops)
    /\ \E out \in {_nearest_neighbor_optimize(stops, start_location,
                                              avg_speed_kmh)} :
           /\ chosen_route' = out.route
           /\ result' = out.response
    /\ calls' = calls \cup {"_nearest_neighbor_optimize",
                            "_format_route_response"}
    /\ pc' = "done"
    /\ UNCHANGED <<stops, start_location, avg_speed_kmh, loc1, loc2, distance,
                   earlier, requests, frame>>

\* the caller has consumed the result; the singleton serves the next call
Return ==
    /\ pc = "done"
    /\ pc' = "idle"
    /\ stops' = <<>>
    /\ start_location' = <<>>
    /\ result' = None
    /\ calls' = {}
    /\ chosen_route' = <<>>
    /\ frame' = <<>>
    /\ UNCHANGED <<avg_speed_kmh, loc1, loc2, distance,
                   earlier, requests>>

Next ==
    \/ Call
    \/ OptimizeEmpty
    \/ OptimizeSingle
    \/ OptimizeBruteForce
    \/ OptimizeNearestNeighbor
    \/ Return

Spec == Init /\ [][Next]_vars

\* optimize as one uninterrupted call: what it returns or raises
optimize(stops_, start, speed) ==
    IF Len(stops_) = 0
    THEN _empty_route
    ELSE IF Len(stops_) = 1
    THEN _single_stop_route(stops_[1], start, speed)
    ELSE IF IsSmall(stops_)
    THEN _brute_force_optimize(stops_, start, speed).response
    ELSE _nearest_neighbor_optimize(stops_, start, speed).response

-----------------------------------------------------------------------------
(* Repeated calls of optimize on the singleton: one completed call is kept *)
(* and every later call with the same arguments is compared with it        *)

\* a caller invokes optimizer.optimize(stops, start_location)
CallAgain ==
    /\ pc = "idle"
    /\ \E s \in RepeatLists, st \in StartLocations :
           /\ stops' = s
           /\ start_location' = st
    /\ pc' = "called"
    /\ result' = None
    /\ calls' = {"optimize"}
    /\ chosen_route' = <<>>
    /\ UNCHANGED <<avg_speed_kmh, loc1, loc2, distance,
                   earlier, requests, frame>>

\* the caller keeps the arguments and the outcome of the call that has just
\* ended
Remember ==
    /\ pc = "done"
    /\ earlier = <<>>
    /\ earlier' = << [stops |-> stops, start_location |-> start_location,
                      result |-> result] >>
    /\ pc' = "idle"
    /\ stops' = <<>>
    /\ start_location' = <<>>
    /\ result' = None
    /\ calls' = {}
    /\ chosen_route' = <<>>
    /\ UNCHANGED <<avg_speed_kmh, loc1, loc2, distance, requests, frame>>

NextRepeat ==
    \/ CallAgain
    \/ OptimizeEmpty
    \/ OptimizeSingle
    \/ OptimizeBruteForce
    \/ OptimizeNearestNeighbor
    \/ Remember
    \/ Return

SpecRepeat == Init /\ [][NextRepeat]_vars

-----------------------------------------------------------------------------
(* Several requests in flight on the singleton, their steps interleaved.   *)
(* The locals of a call (stops, start, route, total_distance,              *)
(* optimized_stops) belong to the request; self.avg_speed_kmh is the one   *)
(* attribute of the instance and is read where the code reads it.          *)

IdleRequest ==
    [pc |-> "idle", stops |-> <<>>, start_location |-> <<>>,
     route |-> <<>>, total_distance |-> 0, optimized_stops |-> <<>>,
     result |-> [status |-> "none"]]

InitConcurrent ==
    /\ stops = <<>>
    /\ start_location = <<>>
    /\ pc = "concurrent"
    /\ result = None
    /\ calls = {}
    /\ chosen_route = <<>>
    /\ avg_speed_kmh = 60
    /\ loc1 = <<>>
    /\ loc2 = <<>>
    /\ distance = None
    /\ earlier = <<>>
    /\ requests = [r \in 1..NumRequests |-> IdleRequest]
    /\ frame = <<>>

\* request r enters optimize(stops, start_location)
Receive(r) ==
    /\ requests[r].pc = "idle"
    /\ \E s \in ConcurrentLists, st \in StartLocations :
           requests' = [requests EXCEPT ![r] =
                           [IdleRequest EXCEPT !.pc = "called",
                                               !.stops = s,
                                               !.start_location = st]]
    /\ UNCHANGED <<stops, start_location, pc, result, calls, chosen_route,
                   avg_speed_kmh, loc1, loc2, distance, earlier, frame>>

\* request r has no stop or one stop: _empty_route or _single_stop_route
Degenerate(r) ==
    /\ requests[r].pc = "called"
    /\ Len(requests[r].stops) <= 1
    /\ requests' = [requests EXCEPT
           ![r].pc = "done",
           ![r].result =
               IF Len(requests[r].stops) = 0
               THEN _empty_route
               ELSE _single_stop_route(requests[r].stops[1],
                                       requests[r].start_location,
                                       avg_speed_kmh)]
    /\ UNCHANGED <<stops, start_location, pc, result, calls, chosen_route,
                   avg_speed_kmh, loc1, loc2, distance, earlier, frame>>

\* the sequencer of request r, with the heuristic path tuning the speed kept
\* on the instance
SequenceTuned(r) ==
    /\ requests[r].pc = "called"
    /\ Len(requests[r].stops) >= 2
    /\ IF IsSmall(requests[r].stops)
       THEN /\ \E found \in {BruteForceSearch(requests[r].stops,
                                               requests[r].start_location)} :
                   requests' = [requests EXCEPT
                       ![r].pc = "formatting",
                       ![r].route = found.best_route,
                       ![r].total_distance = found.best_distance]
            /\ UNCHANGED avg_speed_kmh
       ELSE /\ \E built \in {GreedyLoop(requests[r].stops, <<>>,
                                         requests[r].start_location, 0)} :
                   requests' = [requests EXCEPT
                       ![r].pc = "formatting",
                       ![r].route = built.route,
                       ![r].total_distance = built.total_distance]
            /\ avg_speed_kmh' = 50
    /\ UNCHANGED <<stops, start_location, pc, result, calls, chosen_route,
                   loc1, loc2, distance, earlier, frame>>

\* the sequencer of request r: the search of _brute_force_optimize or the
\* loop of _nearest_neighbor_optimize, up to the call of the formatter
Sequence(r) ==
    /\ requests[r].pc = "called"
    /\ Len(requests[r].stops) >= 2
    /\ IF IsSmall(requests[r].stops)
       THEN \E found \in {BruteForceSearch(requests[r].stops,
                                           requests[r].start_location)} :
                requests' = [requests EXCEPT
                    ![r].pc = "formatting",
                    ![r].route = found.best_route,
                    ![r].total_distance = found.best_distance]
       ELSE \E built \in {GreedyLoop(requests[r].stops, <<>>,
                                     requests[r].start_location, 0)} :
                requests' = [requests EXCEPT
                    ![r].pc = "formatting",
                    ![r].route = built.route,
                    ![r].total_distance = built.total_distance]
    /\ UNCHANGED <<stops, start_location, pc, result, calls, chosen_route,
                   avg_speed_kmh, loc1, loc2, distance, earlier, frame>>

\* the loop of _format_route_response for request r
FormatLoop(r) ==
    /\ requests[r].pc = "formatting"
    /\ requests' = [requests EXCEPT
           ![r].pc = "aggregating",
           ![r].optimized_stops =
               FormatStops(requests[r].route, 0, requests[r].start_location,
                           FloatZero, avg_speed_kmh)]
    /\ UNCHANGED <<stops, start_location, pc, result, calls, chosen_route,
                   avg_speed_kmh, loc1, loc2, distance, earlier, frame>>

\* the rest of _format_route_response for request r: the total time, the
\* savings and the returned dictionary
Aggregate(r) ==
    /\ requests[r].pc = "aggregating"
    /\ \E out \in {_format_route_response(requests[r].route,
                                           requests[r].start_location,
                                           requests[r].total_distance,
                                           avg_speed_kmh)} :
           requests' = [requests EXCEPT
               ![r].pc = "done",
               ![r].result =
                   IF out.status = "ok"
                   THEN [out EXCEPT !.optimized_sequence =
                                        requests[r].optimized_stops]
                   ELSE out]
    /\ UNCHANGED <<stops, start_location, pc, result, calls, chosen_route,
                   avg_speed_kmh, loc1, loc2, distance, earlier, frame>>

\* the result or the error of request r reaches its caller
Respond(r) ==
    /\ requests[r].pc = "done"
    /\ requests' = [requests EXCEPT ![r] = IdleRequest]
    /\ UNCHANGED <<stops, start_location, pc, result, calls, chosen_route,
                   avg_speed_kmh, loc1, loc2, distance, earlier, frame>>

NextConcurrent ==
    \E r \in 1..NumRequests :
        \/ Receive(r)
        \/ Degenerate(r)
        \/ Sequence(r)
        \/ FormatLoop(r)
        \/ Aggregate(r)
        \/ Respond(r)

SpecConcurrent == InitConcurrent /\ [][NextConcurrent]_vars

-----------------------------------------------------------------------------
(* Direct calls of the distance oracle _estimate_distance *)

InitOracle ==
    /\ stops = <<>>
    /\ start_location = <<>>
    /\ pc = "estimating"
    /\ result = None
    /\ calls = {}
    /\ chosen_route = <<>>
    /\ avg_speed_kmh = 60
    /\ loc1 \in Strings
    /\ loc2 \in Strings
    /\ distance = None
    /\ earlier = <<>>
    /\ requests = <<>>
    /\ frame = <<>>

\* _estimate_distance(loc1, loc2) returns
EstimateDistance ==
    /\ pc = "estimating"
    /\ distance' = _estimate_distance(loc1, loc2)
    /\ pc' = "estimated"
    /\ UNCHANGED <<stops, start_location, result, calls, chosen_route,
                   avg_speed_kmh, loc1, loc2, earlier, requests, frame>>

NextOracle == EstimateDistance

SpecOracle == InitOracle /\ [][NextOracle]_vars

-----------------------------------------------------------------------------
(* Direct calls of the helpers _nearest_neighbor_optimize and              *)
(* _calculate_total_distance, as a unit test makes them                    *)

\* a caller invokes optimizer._nearest_neighbor_optimize(stops, start_location)
CallNearestNeighbor ==
    /\ pc = "idle"
    /\ \E s \in StopLists, st \in StartLocations :
           /\ stops' = s
           /\ start_location' = st
    /\ pc' = "called"
    /\ result' = None
    /\ calls' = {"_nearest_neighbor_optimize"}
    /\ chosen_route' = <<>>
    /\ UNCHANGED <<avg_speed_kmh, loc1, loc2, distance,
                   earlier, requests, frame>>

\* _nearest_neighbor_optimize returns or raises
NearestNeighborDirect ==
    /\ pc = "called"
    /\ calls = {"_nearest_neighbor_optimize"}
    /\ \E out \in {_nearest_neighbor_optimize(stops, start_location,
                                              avg_speed_kmh)} :
           /\ chosen_route' = out.route
           /\ result' = out.response
    /\ calls' = calls \cup {"_format_route_response"}
    /\ pc' = "done"
    /\ UNCHANGED <<stops, start_location, avg_speed_kmh, loc1, loc2, distance,
                   earlier, requests, frame>>

\* a caller invokes optimizer._calculate_total_distance(stops, start_location)
CallCalculate ==
    /\ pc = "idle"
    /\ \E s \in StopLists, st \in StartLocations :
           /\ stops' = s
           /\ start_location' = st
    /\ pc' = "called"
    /\ result' = None
    /\ calls' = {"_calculate_total_distance"}
    /\ chosen_route' = <<>>
    /\ UNCHANGED <<avg_speed_kmh, loc1, loc2, distance,
                   earlier, requests, frame>>

\* _calculate_total_distance returns its total
CalculateDirect ==
    /\ pc = "called"
    /\ calls = {"_calculate_total_distance"}
    /\ result' = _calculate_total_distance(stops, start_location)
    /\ pc' = "done"
    /\ UNCHANGED <<stops, start_location, calls, chosen_route, avg_speed_kmh,
                   loc1, loc2, distance,
                   earlier, requests, frame>>

NextDirect ==
    \/ CallNearestNeighbor
    \/ NearestNeighborDirect
    \/ CallCalculate
    \/ CalculateDirect
    \/ Return

SpecDirect == Init /\ [][NextDirect]_vars

-----------------------------------------------------------------------------
(* The while loop of _nearest_neighbor_optimize, one iteration per step.   *)
(* frame holds the locals of the method and the number of iterations run.  *)

\* _nearest_neighbor_optimize(stops, start_location) is entered: the locals
\* before the loop
EnterGreedy ==
    /\ pc = "idle"
    /\ \E s \in GreedyLists, st \in StartLocations :
           /\ stops' = s
           /\ start_location' = st
           /\ frame' = [unvisited |-> s,
                        route |-> <<>>,
                        current_location |-> st,
                        total_distance |-> 0,
                        iterations |-> 0]
    /\ pc' = "looping"
    /\ result' = None
    /\ calls' = {"_nearest_neighbor_optimize"}
    /\ chosen_route' = <<>>
    /\ UNCHANGED <<avg_speed_kmh, loc1, loc2, distance, earlier, requests>>

\* one iteration of the while loop
GreedyStep ==
    /\ pc = "looping"
    /\ frame.unvisited # <<>>
    /\ LET nearest == Nearest(frame.unvisited, frame.current_location)
           d == _estimate_distance(frame.current_location, nearest.location)
       IN  frame' = [unvisited |-> RemoveFirst(frame.unvisited, nearest),
                     route |-> Append(frame.route, nearest),
                     current_location |-> nearest.location,
                     total_distance |-> frame.total_distance + d,
                     iterations |-> frame.iterations + 1]
    /\ UNCHANGED <<stops, start_location, pc, result, calls, chosen_route,
                   avg_speed_kmh, loc1, loc2, distance, earlier, requests>>

\* unvisited is empty: the loop ends and the route goes to the formatter
GreedyReturn ==
    /\ pc = "looping"
    /\ frame.unvisited = <<>>
    /\ chosen_route' = frame.route
    /\ result' = _format_route_response(frame.route, start_location,
                                        frame.total_distance, avg_speed_kmh)
    /\ calls' = calls \cup {"_format_route_response"}
    /\ pc' = "done"
    /\ UNCHANGED <<stops, start_location, avg_speed_kmh, loc1, loc2, distance,
                   earlier, requests, frame>>

NextGreedy ==
    \/ EnterGreedy
    \/ GreedyStep
    \/ GreedyReturn
    \/ Return

\* the method runs on one thread that nothing suspends: its loop keeps
\* stepping and its return follows
SpecGreedy ==
    /\ Init
    /\ [][NextGreedy]_vars
    /\ WF_vars(GreedyStep)
    /\ WF_vars(GreedyReturn)

-----------------------------------------------------------------------------
(* The for loop of _brute_force_optimize, one permutation per step, inside *)
(* a call of optimize. frame holds best_route, best_distance, the tuple of *)
(* input positions itertools.permutations yielded last (<<>> before the    *)
(* first) and the number of cost evaluations made.                         *)

\* the iterator stops as soon as the first position it yields is the last
\* of the input
ExhaustedAtLastHead(perm, n) == perm # <<>> /\ perm[1] = n

\* itertools.permutations has nothing left after the descending tuple
Exhausted(perm, n) ==
    perm # <<>> /\ \A k \in 1..(n - 1) : perm[k] > perm[k + 1]

\* the tuple itertools.permutations yields after perm: the next one in
\* lexicographic order of input positions, the ascending tuple first
NextPermutation(perm, n) ==
    IF perm = <<>>
    THEN [k \in 1..n |-> k]
    ELSE LET i == CHOOSE k \in 1..(n - 1) :
                      /\ perm[k] < perm[k + 1]
                      /\ \A m \in (k + 1)..(n - 1) : perm[m] > perm[m + 1]
             j == CHOOSE k \in (i + 1)..n :
                      /\ perm[k] > perm[i]
                      /\ \A m \in (k + 1)..n : perm[m] < perm[i]
             swapped == [perm EXCEPT ![i] = perm[j], ![j] = perm[i]]
         IN  [k \in 1..n |->
                 IF k <= i THEN swapped[k] ELSE swapped[n + i + 1 - k]]

\* optimize, 2 <= len(stops) <= 8: _brute_force_optimize is entered
EnterBruteForce ==
    /\ pc = "called"
    /\ Len(stops) # 0
    /\ Len(stops) # 1
    /\ IsSmall(stops)
    /\ frame' = [best_route |-> None,
                 best_distance |-> Infinity,
                 perm |-> <<>>,
                 evaluated |-> 0]
    /\ calls' = calls \cup {"_brute_force_optimize"}
    /\ pc' = "searching"
    /\ UNCHANGED <<stops, start_location, result, chosen_route, avg_speed_kmh,
                   loc1, loc2, distance, earlier, requests>>

\* one pass of the for loop: the next permutation and its cost
SearchStep ==
    /\ pc = "searching"
    /\ ~Exhausted(frame.perm, Len(stops))
    /\ LET perm == NextPermutation(frame.perm, Len(stops))
           found == TryPermutation(stops, start_location, perm,
                                   [best_distance |-> frame.best_distance,
                                    best_route |-> frame.best_route,
                                    evaluated |-> frame.evaluated])
       IN  frame' = [best_route |-> found.best_route,
                     best_distance |-> found.best_distance,
                     perm |-> perm,
                     evaluated |-> found.evaluated]
    /\ UNCHANGED <<stops, start_location, pc, result, calls, chosen_route,
                   avg_speed_kmh, loc1, loc2, distance, earlier, requests>>

\* the iterator is exhausted: best_route goes to the formatter
SearchReturn ==
    /\ pc = "searching"
    /\ Exhausted(frame.perm, Len(stops))
    /\ chosen_route' = frame.best_route
    /\ result' = _format_route_response(frame.best_route, start_location,
                                        frame.best_distance, avg_speed_kmh)
    /\ calls' = calls \cup {"_format_route_response"}
    /\ pc' = "done"
    /\ UNCHANGED <<stops, start_location, avg_speed_kmh, loc1, loc2, distance,
                   earlier, requests, frame>>

NextSearch ==
    \/ Call
    \/ OptimizeEmpty
    \/ OptimizeSingle
    \/ EnterBruteForce
    \/ SearchStep
    \/ SearchReturn
    \/ OptimizeNearestNeighbor
    \/ Return

SpecSearch == Init /\ [][NextSearch]_vars

-----------------------------------------------------------------------------
(* Requests to POST /api/optimize/route: optimize_route builds the stops   *)
(* from the shipment ids and calls optimizer.optimize                      *)

\* optimize_route receives a request and calls optimize
OptimizeRoute ==
    /\ pc = "idle"
    /\ \E shipment_ids \in ShipmentIdLists, st \in RequestStarts :
           /\ stops' = BuildStops(shipment_ids)
           /\ start_location' = st
    /\ pc' = "called"
    /\ result' = None
    /\ calls' = {"optimize_route", "optimize"}
    /\ chosen_route' = <<>>
    /\ UNCHANGED <<avg_speed_kmh, loc1, loc2, distance,
                   earlier, requests, frame>>

NextHandler ==
    \/ OptimizeRoute
    \/ OptimizeEmpty
    \/ OptimizeSingle
    \/ OptimizeBruteForce
    \/ OptimizeNearestNeighbor
    \/ Return

SpecHandler == Init /\ [][NextHandler]_vars

-----------------------------------------------------------------------------
(* _format_route_response, one pass of its loop per step, inside a call of *)
(* optimize with 2 or more stops. frame holds the locals of the method:    *)
(* idx, current_location, current_time, optimized_stops, and after the     *)
(* loop total_time.                                                        *)

\* optimize(stops, start_location) is called with the stops at "A", "B" and
\* U+0203, whose legs from "Start" are 60, 51 and 50 km
CallFar ==
    /\ pc = "idle"
    /\ \E st \in StartLocations :
           /\ stops' = TrapStops
           /\ start_location' = st
    /\ pc' = "called"
    /\ result' = None
    /\ calls' = {"optimize"}
    /\ chosen_route' = <<>>
    /\ UNCHANGED <<avg_speed_kmh, loc1, loc2, distance,
                   earlier, requests, frame>>

\* optimize has run its sequencer and enters the formatter with the chosen
\* route and its total distance
EnterFormat ==
    /\ pc = "called"
    /\ Len(stops) # 0
    /\ Len(stops) # 1
    /\ \E chosen \in {IF IsSmall(stops)
                       THEN LET found == BruteForceSearch(stops,
                                                          start_location)
                            IN  [route |-> found.best_route,
                                 total_distance |-> found.best_distance]
                       ELSE GreedyLoop(stops, <<>>, start_location, 0)} :
           /\ chosen_route' = chosen.route
           /\ frame' = [total_distance |-> chosen.total_distance,
                        idx |-> 0,
                        current_location |-> start_location,
                        current_time |-> FloatZero,
                        optimized_stops |-> <<>>,
                        total_time |-> FloatZero]
    /\ calls' = calls \cup {IF IsSmall(stops)
                            THEN "_brute_force_optimize"
                            ELSE "_nearest_neighbor_optimize",
                            "_format_route_response"}
    /\ pc' = "formatting"
    /\ UNCHANGED <<stops, start_location, result, avg_speed_kmh,
                   loc1, loc2, distance, earlier, requests>>

\* one pass of the loop with current_location left at the start
FormatStepFromStart ==
    /\ pc = "formatting"
    /\ frame.idx < Len(chosen_route)
    /\ LET stop == chosen_route[frame.idx + 1]
           distance_from_prev ==
               _estimate_distance(frame.current_location, stop.location)
           travel_time == FloatDiv(distance_from_prev, avg_speed_kmh)
           current_time == FloatAdd(frame.current_time, travel_time)
       IN  frame' = [frame EXCEPT
               !.idx = @ + 1,
               !.current_time = current_time,
               !.optimized_stops = Append(@,
                   [shipment_id |-> stop.shipment_id,
                    sequence |-> frame.idx + 1,
                    location |-> stop.location,
                    estimated_arrival |-> ArrivalString(current_time),
                    distance_from_previous |->
                        Round2(distance_from_prev, 1)])]
    /\ UNCHANGED <<stops, start_location, pc, result, calls, chosen_route,
                   avg_speed_kmh, loc1, loc2, distance, earlier, requests>>

\* one pass of the loop over the route
FormatStep ==
    /\ pc = "formatting"
    /\ frame.idx < Len(chosen_route)
    /\ LET stop == chosen_route[frame.idx + 1]
           distance_from_prev ==
               _estimate_distance(frame.current_location, stop.location)
           travel_time == FloatDiv(distance_from_prev, avg_speed_kmh)
           current_time == FloatAdd(frame.current_time, travel_time)
       IN  frame' = [frame EXCEPT
               !.idx = @ + 1,
               !.current_location = stop.location,
               !.current_time = current_time,
               !.optimized_stops = Append(@,
                   [shipment_id |-> stop.shipment_id,
                    sequence |-> frame.idx + 1,
                    location |-> stop.location,
                    estimated_arrival |-> ArrivalString(current_time),
                    distance_from_previous |->
                        Round2(distance_from_prev, 1)])]
    /\ UNCHANGED <<stops, start_location, pc, result, calls, chosen_route,
                   avg_speed_kmh, loc1, loc2, distance, earlier, requests>>

\* after the loop: total_time, the savings and the returned dictionary
FormatReturn ==
    /\ pc = "formatting"
    /\ frame.idx = Len(chosen_route)
    /\ frame' = [frame EXCEPT
           !.total_time = FloatDiv(frame.total_distance, avg_speed_kmh)]
    /\ \E out \in {_format_route_response(chosen_route, start_location,
                                           frame.total_distance,
                                           avg_speed_kmh)} :
           result' = IF out.status = "ok"
                     THEN [out EXCEPT !.optimized_sequence =
                                          frame.optimized_stops]
                     ELSE out
    /\ pc' = "done"
    /\ UNCHANGED <<stops, start_location, calls, chosen_route, avg_speed_kmh,
                   loc1, loc2, distance, earlier, requests>>

NextFormat ==
    \/ Call
    \/ CallFar
    \/ OptimizeEmpty
    \/ OptimizeSingle
    \/ EnterFormat
    \/ FormatStep
    \/ FormatReturn
    \/ Return

SpecFormat == Init /\ [][NextFormat]_vars

-----------------------------------------------------------------------------
(* Properties *)

\* optimize has returned a result dict (it did not raise)
Returned == pc = "done" /\ result.status = "ok"

\* number of entries of seq whose shipment id is id
CountId(seq, id) == Cardinality({i \in 1..Len(seq) : seq[i].shipment_id = id})

\* the stops listed in the order perm, a permutation of their positions
Reordered(stops_, perm) == [i \in 1..Len(stops_) |-> stops_[perm[i]]]

\* C1: whenever optimize returns a result, optimized_sequence has as many
\* entries as the input has stops and holds every shipment id exactly as
\* often as the input does.
C1_PermutationOfInput ==
    Returned =>
        /\ Len(result.optimized_sequence) = Len(stops)
        /\ \A j \in 1..Len(StopPool) :
               CountId(result.optimized_sequence, StopPool[j].shipment_id)
                   = CountId(stops, StopPool[j].shipment_id)

\* a result of the nearest-neighbour path for an input that repeats an
\* identical stop record next to other stops
C1_Witness ==
    /\ Returned
    /\ "_nearest_neighbor_optimize" \in calls
    /\ \E i, j \in 1..Len(stops) : i # j /\ stops[i] = stops[j]
    /\ \E i, j \in 1..Len(stops) : stops[i] # stops[j]

\* the entries of optimized_sequence are the stops of order, one by one
ListsInOrder(sequence, order) ==
    /\ Len(sequence) = Len(order)
    /\ \A i \in 1..Len(order) :
           /\ sequence[i].shipment_id = order[i].shipment_id
           /\ sequence[i].location = order[i].location

\* C2: for 2 to 8 stops the order the exact sequencer chooses costs no more,
\* by _calculate_total_distance from the start, than any permutation of the
\* input stops, and a returned result lists exactly that order; a returned
\* result for fewer stops is no costlier than any permutation either.
C2_ExactOptimal ==
    (pc = "done" /\ Len(stops) <= 8) =>
        /\ Len(stops) >= 2 =>
               /\ "_brute_force_optimize" \in calls
               /\ \A perm \in Permutations(1..Len(stops)) :
                      _calculate_total_distance(chosen_route, start_location)
                          <= _calculate_total_distance(Reordered(stops, perm),
                                                       start_location)
               /\ Returned => ListsInOrder(result.optimized_sequence,
                                        chosen_route)
        /\ (Len(stops) <= 1 /\ Returned) =>
               \A perm \in Permutations(1..Len(stops)) :
                   _calculate_total_distance(result.optimized_sequence,
                                             start_location)
                       <= _calculate_total_distance(Reordered(stops, perm),
                                                    start_location)

\* a result of the exhaustive search over 8 stops whose order costs strictly
\* less than the input order
C2_Witness ==
    /\ Returned
    /\ Len(stops) = 8
    /\ "_brute_force_optimize" \in calls
    /\ _calculate_total_distance(result.optimized_sequence, start_location)
           < _calculate_total_distance(stops, start_location)

\* C3: optimize returns a result for every input and never raises.
C3_NeverRaises == pc = "done" => result.status = "ok"

\* C4: 2 to 8 stops are handled by _brute_force_optimize and never by
\* _nearest_neighbor_optimize, 9 or more stops the other way round.
C4_SelectionByCount ==
    pc = "done" =>
        /\ (2 <= Len(stops) /\ Len(stops) <= 8) =>
               /\ "_brute_force_optimize" \in calls
               /\ "_nearest_neighbor_optimize" \notin calls
        /\ Len(stops) >= 9 =>
               /\ "_nearest_neighbor_optimize" \in calls
               /\ "_brute_force_optimize" \notin calls

\* a call with exactly 8 stops that the exhaustive search has answered
C4_Witness ==
    /\ pc = "done"
    /\ Len(stops) = 8
    /\ "_brute_force_optimize" \in calls

\* C5: with 0 stops the result is an empty sequence with total distance,
\* total time and fuel savings all 0.
C5_EmptyResult ==
    (pc = "done" /\ Len(stops) = 0) =>
        /\ result.status = "ok"
        /\ result.optimized_sequence = <<>>
        /\ result.total_distance_km = 0
        /\ result.total_time_hours = 0
        /\ result.fuel_savings_percent = 0

\* a call with no stops from the start "Start" has returned
C5_Witness ==
    /\ pc = "done"
    /\ Len(stops) = 0
    /\ start_location = LocStart
    /\ "_empty_route" \in calls

\* C6: with 1 stop the result holds that stop alone, with sequence 1 and
\* distance_from_previous and total_distance_km both the distance from the
\* start to the stop (in hundredths of a km), and fuel savings 0.
C6_SingleResult ==
    (pc = "done" /\ Len(stops) = 1) =>
        LET d == _estimate_distance(start_location, stops[1].location)
        IN  /\ result.status = "ok"
            /\ Len(result.optimized_sequence) = 1
            /\ result.optimized_sequence[1].shipment_id = stops[1].shipment_id
            /\ result.optimized_sequence[1].location = stops[1].location
            /\ result.optimized_sequence[1].sequence = 1
            /\ result.optimized_sequence[1].distance_from_previous = 100 * d
            /\ result.total_distance_km = 100 * d
            /\ result.fuel_savings_percent = 0

\* a call with one stop located at the start has returned
C6_Witness ==
    /\ pc = "done"
    /\ Len(stops) = 1
    /\ stops[1].location = start_location
    /\ result.status = "ok"

\* C7: the distance oracle gives the same value with its arguments swapped,
\* and 0 for two equal strings.
C7_SymmetricZeroDiagonal ==
    pc = "estimated" =>
        /\ distance = _estimate_distance(loc2, loc1)
        /\ loc1 = loc2 => distance = 0

\* the oracle has answered for two strings of different character sums
C7_Witness ==
    /\ pc = "estimated"
    /\ SumCodes(loc1) > SumCodes(loc2)
    /\ distance > 50

\* C8: for distinct strings the distance is 50 + (|h(a) - h(b)| mod 450), a
\* value in 50..499; it is 0 exactly for identical strings and never
\* negative.
C8_DistanceFormula ==
    pc = "estimated" =>
        /\ loc1 # loc2 =>
               /\ distance = 50 + (Abs(SumCodes(loc1) - SumCodes(loc2)) % 450)
               /\ distance \in 50..499
        /\ distance = 0 <=> loc1 = loc2
        /\ distance >= 0

\* the oracle has answered 50 for two distinct strings of equal character
\* sum (anagrams)
C8_Witness ==
    /\ pc = "estimated"
    /\ loc1 # loc2
    /\ Len(loc1) = 2
    /\ SumCodes(loc1) = SumCodes(loc2)
    /\ distance = 50

\* C9 as stated: the reported total time is the reported total distance
\* divided by the average speed (both fields are in hundredths).
C9_TimeIsDistanceOverSpeed ==
    Returned =>
        result.total_time_hours * avg_speed_kmh = result.total_distance_km

\* C9, amended: the reported total time is the total distance divided by the
\* average speed of 60, rounded to two decimals: it is a whole number of
\* hundredths within half a hundredth of the quotient.
C9_TimeIsRoundedQuotient ==
    Returned =>
        /\ avg_speed_kmh = 60
        /\ 2 * Abs(result.total_time_hours * avg_speed_kmh
                   - result.total_distance_km) <= avg_speed_kmh

\* a computed route of several stops whose reported time is not the exact
\* quotient
C9_Witness ==
    /\ Returned
    /\ Len(stops) >= 2
    /\ result.total_time_hours * avg_speed_kmh # result.total_distance_km

\* the stops of the concrete scenario: s1 at "A", s2 at "B", s3 at "C"
ScenarioStops == <<StopPool[1], StopPool[2], StopPool[3]>>

\* C10: from "Start" the oracle gives 61, 60, 59 to A, B, C and 51, 52, 51
\* between A-B, A-C, B-C; optimize returns s3, s2, s1 (C, B, A) with total
\* distance 161, and no other of the 6 orders costs as little.
C10_Scenario ==
    /\ _estimate_distance(LocStart, LocA) = 61
    /\ _estimate_distance(LocStart, LocB) = 60
    /\ _estimate_distance(LocStart, LocC) = 59
    /\ _estimate_distance(LocA, LocB) = 51
    /\ _estimate_distance(LocA, LocC) = 52
    /\ _estimate_distance(LocB, LocC) = 51
    /\ (pc = "done" /\ stops = ScenarioStops /\ start_location = LocStart) =>
           /\ result.status = "ok"
           /\ [i \in 1..3 |-> result.optimized_sequence[i].shipment_id]
                  = <<"s3", "s2", "s1">>
           /\ [i \in 1..3 |-> result.optimized_sequence[i].location]
                  = <<LocC, LocB, LocA>>
           /\ result.total_distance_km = 100 * 161
           /\ \A perm \in Permutations(1..3) :
                  perm # <<3, 2, 1>> =>
                      _calculate_total_distance(Reordered(stops, perm),
                                                start_location) > 161

\* the scenario's call has returned
C10_Witness ==
    /\ pc = "done"
    /\ stops = ScenarioStops
    /\ start_location = LocStart
    /\ result.status = "ok"

\* _nearest_neighbor_optimize has run and chosen its route, directly called
\* or reached through optimize
GreedyDone == pc = "done" /\ "_nearest_neighbor_optimize" \in calls

RECURSIVE FollowsGreedy(_, _, _)
\* from step k on, with the input positions in visited already appended and
\* the route standing at current: the stop appended at step k is the input
\* stop of least distance from current among the positions not visited, the
\* earliest such position when several are at that distance
FollowsGreedy(k, visited, current) ==
    IF k > Len(stops)
    THEN TRUE
    ELSE LET unvisited == (1..Len(stops)) \ visited
             least == CHOOSE d \in {_estimate_distance(current,
                                                       stops[q].location) :
                                        q \in unvisited} :
                          \A q \in unvisited :
                              d <= _estimate_distance(current,
                                                      stops[q].location)
             p == CHOOSE q \in unvisited :
                      /\ _estimate_distance(current, stops[q].location) = least
                      /\ \A q2 \in unvisited :
                             _estimate_distance(current, stops[q2].location)
                                 = least => q <= q2
         IN  /\ chosen_route[k] = stops[p]
             /\ FollowsGreedy(k + 1, visited \cup {p}, stops[p].location)

\* C11: at every step the nearest-neighbour sequencer appends an unvisited
\* stop of minimum distance from the current location (the start at first,
\* then the stop appended last), the earliest in input order among several.
C11_NearestFirstOccurrence ==
    GreedyDone =>
        /\ Len(chosen_route) = Len(stops)
        /\ FollowsGreedy(1, {}, start_location)

\* a greedy route over an input in which two different stop records share
\* the location nearest to the start, the later of them listed first
C11_Witness ==
    /\ GreedyDone
    /\ Len(stops) = 3
    /\ stops[1].location = LocC
    /\ stops[2] = StopPool[5]
    /\ stops[3] = StopPool[2]
    /\ start_location = LocA
    /\ chosen_route[1] = StopPool[5]

\* _brute_force_optimize has run and chosen its route
ExactDone == pc = "done" /\ "_brute_force_optimize" \in calls

\* permutation p of input positions comes no later than q in the order of
\* itertools.permutations: they are equal, or p is smaller where they first
\* differ
LexLeq(p, q) ==
    \/ p = q
    \/ \E i \in DOMAIN p :
           /\ p[i] < q[i]
           /\ \A j \in 1..(i - 1) : p[j] = q[j]

\* total distance of the input stops taken in the order of permutation p
CostOf(p) == _calculate_total_distance(Reordered(stops, p), start_location)

\* the permutations of the input positions whose order costs no more than
\* the chosen route
NoCostlierPermutations ==
    LET least == _calculate_total_distance(chosen_route, start_location)
    IN  {p \in Permutations(1..Len(stops)) : CostOf(p) <= least}

\* C12: among the permutations of least total distance the exact sequencer
\* keeps the first in enumeration order, lexicographic over input positions:
\* no permutation costs less than the chosen route, and the chosen route is
\* the earliest of those that cost the same.
C12_FirstMinimumWins ==
    ExactDone =>
        \E ties \in {NoCostlierPermutations} :
            LET first == CHOOSE p \in ties : \A q \in ties : LexLeq(p, q)
            IN  /\ chosen_route = Reordered(stops, first)
                /\ \A q \in ties : CostOf(q) = CostOf(first)

\* an exhaustive search in which a later permutation ties with the chosen
\* one and orders the stops differently
C12_Witness ==
    /\ ExactDone
    /\ Len(stops) >= 3
    /\ \E q \in Permutations(1..Len(stops)) :
           /\ Reordered(stops, q) # chosen_route
           /\ _calculate_total_distance(Reordered(stops, q), start_location)
                  = _calculate_total_distance(chosen_route, start_location)

RECURSIVE SumFromPrevious(_, _)
\* sum of the distance_from_previous fields of the first n entries
SumFromPrevious(sequence, n) ==
    IF n = 0
    THEN 0
    ELSE SumFromPrevious(sequence, n - 1) + sequence[n].distance_from_previous

\* C14: for 2 or more stops, on either path, total_distance_km is the Route
\* Cost Evaluator's value for the returned order from the start (fields are
\* in hundredths of a km) and the sum of the distance_from_previous fields.
C14_TotalIsRouteCost ==
    (Returned /\ Len(stops) >= 2) =>
        /\ result.total_distance_km
               = 100 * _calculate_total_distance(result.optimized_sequence,
                                                 start_location)
        /\ result.total_distance_km
               = SumFromPrevious(result.optimized_sequence,
                                 Len(result.optimized_sequence))

\* a result of the nearest-neighbour path, whose total was accumulated in
\* its own loop, for stops at several locations
C14_Witness ==
    /\ Returned
    /\ "_nearest_neighbor_optimize" \in calls
    /\ \E i, j \in 1..Len(stops) : stops[i].location # stops[j].location
    /\ result.total_distance_km > 0

\* C15: the i-th entry of optimized_sequence has sequence i, and its
\* distance_from_previous is the distance from the start for i = 1 and from
\* the location of entry i - 1 otherwise (in hundredths of a km).
C15_SequenceAndLegs ==
    Returned =>
        \A i \in 1..Len(result.optimized_sequence) :
            LET entry == result.optimized_sequence[i]
                previous == IF i = 1
                            THEN start_location
                            ELSE result.optimized_sequence[i - 1].location
            IN  /\ entry.sequence = i
                /\ entry.distance_from_previous
                       = 100 * _estimate_distance(previous, entry.location)

\* a result of three or more entries whose last leg differs from the
\* distance between the start and the last stop
C15_Witness ==
    /\ Returned
    /\ Len(result.optimized_sequence) >= 3
    /\ LET n == Len(result.optimized_sequence)
       IN  result.optimized_sequence[n].distance_from_previous
               # 100 * _estimate_distance(start_location,
                                          result.optimized_sequence[n].location)

\* C18: called directly with 0 stops the heuristic sequencer returns an
\* empty sequence with all aggregates 0, and with 1 stop a sequence of just
\* that stop with total distance distance(start, stop.location) (in
\* hundredths of a km), in both cases without raising.
C18_GreedyDegenerate ==
    (GreedyDone /\ Len(stops) <= 1) =>
        /\ result.status = "ok"
        /\ Len(stops) = 0 =>
               /\ result.optimized_sequence = <<>>
               /\ result.total_distance_km = 0
               /\ result.total_time_hours = 0
               /\ result.fuel_savings_percent = 0
        /\ Len(stops) = 1 =>
               /\ Len(result.optimized_sequence) = 1
               /\ result.optimized_sequence[1].shipment_id
                      = stops[1].shipment_id
               /\ result.optimized_sequence[1].location = stops[1].location
               /\ result.total_distance_km
                      = 100 * _estimate_distance(start_location,
                                                 stops[1].location)

\* C19: for 0 or 1 stops optimize enters neither sequencer nor the general
\* formatter; the result is that of _empty_route or _single_stop_route.
C19_DegenerateFirstClass ==
    (pc = "done" /\ "optimize" \in calls /\ Len(stops) <= 1) =>
        /\ "_brute_force_optimize" \notin calls
        /\ "_nearest_neighbor_optimize" \notin calls
        /\ "_format_route_response" \notin calls
        /\ chosen_route = <<>>
        /\ Len(stops) = 0 =>
               calls = {"optimize", "_empty_route"} /\ result = _empty_route
        /\ Len(stops) = 1 =>
               /\ calls = {"optimize", "_single_stop_route"}
               /\ result = _single_stop_route(stops[1], start_location,
                                              avg_speed_kmh)

\* optimize has answered a call with one stop located away from the start
C19_Witness ==
    /\ pc = "done"
    /\ "optimize" \in calls
    /\ Len(stops) = 1
    /\ stops[1].location # start_location
    /\ result.status = "ok"

RECURSIVE PathLength(_, _, _)
\* distance(start, s1) plus the distances between consecutive stops up to
\* the n-th, summed from the last leg back
PathLength(route, start, n) ==
    IF n = 0
    THEN 0
    ELSE PathLength(route, start, n - 1)
         + _estimate_distance(IF n = 1 THEN start ELSE route[n - 1].location,
                              route[n].location)

\* _calculate_total_distance has returned from a direct call
CalculateDone == pc = "done" /\ calls = {"_calculate_total_distance"}

\* C20: _calculate_total_distance returns 0 for an empty route and otherwise
\* the length of the open path from the start through the stops in order,
\* with no leg back to the start.
C20_OpenPathCost ==
    CalculateDone =>
        /\ stops = <<>> => result = 0
        /\ result = PathLength(stops, start_location, Len(stops))

\* the evaluator has answered for a route of several stops that ends away
\* from the start
C20_Witness ==
    /\ CalculateDone
    /\ Len(stops) >= 3
    /\ stops[Len(stops)].location # start_location
    /\ stops[1].location # stops[2].location
    /\ result > 100

\* C16: a call of optimize with the same start location and the same stops
\* in the same order as an earlier call ends as that call did (the same
\* result, field by field, or the same error), whatever calls the singleton
\* served before, between and after them.
C16_Deterministic ==
    (/\ pc = "done"
     /\ earlier # <<>>
     /\ earlier[1].stops = stops
     /\ earlier[1].start_location = start_location) =>
        result = earlier[1].result

\* a call of several stops has returned a result for the second time
C16_Witness ==
    /\ Returned
    /\ Len(stops) >= 2
    /\ earlier # <<>>
    /\ earlier[1].stops = stops
    /\ earlier[1].start_location = start_location
    /\ earlier[1].result.status = "ok"

\* C17: the requests served by the singleton share no mutable state: no step
\* of optimize or of its helpers writes avg_speed_kmh, which stays 60, and
\* under every interleaving of the steps of the requests in flight each
\* request ends with the result (or the error) it gets when it runs alone.
C17_NoSharedState ==
    /\ avg_speed_kmh = 60
    /\ \A r \in 1..NumRequests :
           requests[r].pc = "done" =>
               requests[r].result = optimize(requests[r].stops,
                                             requests[r].start_location, 60)

\* a request has returned a result while another request, received before it
\* ended, is between its sequencer and its formatter
C17_Witness ==
    \E r, q \in 1..NumRequests :
        /\ r # q
        /\ requests[r].pc = "done"
        /\ requests[r].result.status = "ok"
        /\ Len(requests[r].stops) >= 2
        /\ requests[q].pc \in {"formatting", "aggregating"}

\* number of entries of seq equal to x
Occurrences(seq, x) == Cardinality({i \in 1..Len(seq) : seq[i] = x})

\* every stop occurs in route and unvisited together as often as in the input
LoopKeepsStops ==
    \A x \in {stops[i] : i \in 1..Len(stops)}
            \cup {frame.route[i] : i \in 1..Len(frame.route)}
            \cup {frame.unvisited[i] : i \in 1..Len(frame.unvisited)} :
        Occurrences(frame.route, x) + Occurrences(frame.unvisited, x)
            = Occurrences(stops, x)

\* C21: in the greedy loop the stops of route and of unvisited together are,
\* as multisets, the input stops; every iteration moves one occurrence of
\* one stop from unvisited to route, so after k iterations route holds k
\* stops and unvisited n - k; the loop runs again exactly while fewer than n
\* iterations have run, and a call that entered the loop leaves it after n
\* iterations with unvisited empty.
C21_LoopMovesOneStop ==
    /\ [](pc \in {"looping", "done"} =>
             /\ LoopKeepsStops
             /\ Len(frame.route) = frame.iterations
             /\ Len(frame.unvisited) = Len(stops) - frame.iterations
             /\ (frame.unvisited # <<>>) = (frame.iterations < Len(stops))
             /\ (pc = "done" =>
                     /\ frame.iterations = Len(stops)
                     /\ frame.unvisited = <<>>
                     /\ chosen_route = frame.route))
    /\ (pc = "looping" ~> pc = "done")

\* the loop has ended on a list that holds the same stop record twice
C21_Witness ==
    /\ pc = "done"
    /\ Len(stops) >= 3
    /\ frame.iterations = Len(stops)
    /\ \E i, j \in 1..Len(stops) : i # j /\ stops[i] = stops[j]
    /\ \E i, j \in 1..Len(stops) : stops[i] # stops[j]

RECURSIVE Factorial(_)
Factorial(n) == IF n <= 1 THEN 1 ELSE n * Factorial(n - 1)

\* p comes strictly before q in lexicographic order
LexLess(p, q) ==
    \E k \in 1..Len(p) :
        /\ p[k] < q[k]
        /\ \A m \in 1..(k - 1) : p[m] = q[m]

\* p is a tuple of the positions 1..n, each once
IsPermutation(p, n) ==
    /\ Len(p) = n
    /\ {p[k] : k \in 1..n} = 1..n

\* C22: for 2 to 8 stops _brute_force_optimize costs every permutation of
\* the stops exactly once (each pass of the loop costs one permutation, the
\* permutations come in strictly increasing lexicographic order, and the
\* loop ends after n! of them, at most 40320: it goes on exactly while fewer
\* than n! have been costed) and then returns; a call of optimize with more
\* than 8 stops, or fewer than 2, enumerates nothing.
C22_EveryPermutationOnce ==
    /\ [](pc = "searching" =>
             /\ Len(stops) \in 2..8
             /\ frame.evaluated <= Factorial(Len(stops))
             /\ (frame.evaluated = 0) = (frame.perm = <<>>)
             /\ frame.perm # <<>> => IsPermutation(frame.perm, Len(stops))
             /\ (frame.perm = [k \in 1..Len(stops) |-> Len(stops) + 1 - k])
                    = (frame.evaluated = Factorial(Len(stops))))
    /\ [](pc = "done" =>
             IF Len(stops) \in 2..8
             THEN /\ "_brute_force_optimize" \in calls
                  /\ frame.evaluated = Factorial(Len(stops))
                  /\ frame.evaluated <= 40320
             ELSE /\ "_brute_force_optimize" \notin calls
                  /\ frame = <<>>)
    /\ [][pc = "searching" /\ pc' = "searching" =>
             /\ frame'.evaluated = frame.evaluated + 1
             /\ frame.perm # <<>> => LexLess(frame.perm, frame'.perm)]_vars

\* the search has ended on a list of 4 stops after 24 cost evaluations
C22_Witness ==
    /\ pc = "done"
    /\ Len(stops) = 4
    /\ "_brute_force_optimize" \in calls
    /\ frame.evaluated = 24

\* C23: the heuristic does not guarantee the shortest order: from start "A"
\* with stops at "A", "B" and U+0203, _nearest_neighbor_optimize visits "A",
\* U+0203, "B" for a total of 549, while the order U+0203, "A", "B" of the
\* same stops has total 151.
C23_GreedyNotOptimal ==
    (/\ pc = "done"
     /\ "_nearest_neighbor_optimize" \in calls
     /\ stops = TrapStops
     /\ start_location = LocA) =>
        /\ chosen_route = Reordered(stops, <<1, 3, 2>>)
        /\ frame.total_distance = 549
        /\ result.status = "ok"
        /\ result.total_distance_km = 54900
        /\ _calculate_total_distance(Reordered(stops, <<3, 1, 2>>),
                                     start_location) = 151

\* _nearest_neighbor_optimize has returned an order that is strictly longer
\* than another order of the same stops
C23_Witness ==
    /\ pc = "done"
    /\ "_nearest_neighbor_optimize" \in calls
    /\ result.status = "ok"
    /\ Len(stops) = 3
    /\ \E p \in {q \in [1..3 -> 1..3] : IsPermutation(q, 3)} :
           100 * _calculate_total_distance(Reordered(stops, p), start_location)
               < result.total_distance_km

C25_InputsUnchanged ==
    [][pc = "called" =>
          /\ stops' = stops
          /\ start_location' = start_location
          /\ Len(stops') = Len(stops)
          /\ \A i \in 1..Len(stops) :
                 /\ stops'[i].shipment_id = stops[i].shipment_id
                 /\ stops'[i].location = stops[i].location]_vars

\* the heuristic path has returned a route that is not in input order while
\* the caller's list still holds its 9 stops
C25_Witness ==
    /\ Returned
    /\ "_nearest_neighbor_optimize" \in calls
    /\ Len(stops) = 9
    /\ Len(chosen_route) = 9
    /\ chosen_route # stops

\* every stop of the call is located at the start location
AllAtStart == \A i \in 1..Len(stops) : stops[i].location = start_location

\* C26: optimize raises exactly when it is given 2 or more stops that are
\* all located at the start location (the chosen route then has total
\* distance 0 and the savings division fails); with 0 stops, 1 stop, or
\* some stop elsewhere than the start it returns a result.
C26_RaisesExactlyAllAtStart ==
    pc = "done" =>
        /\ result.status \in {"ok", "ZeroDivisionError"}
        /\ (result.status = "ZeroDivisionError")
               = (Len(stops) >= 2 /\ AllAtStart)
        /\ result.status = "ZeroDivisionError" =>
               _calculate_total_distance(chosen_route, start_location) = 0
        /\ (Len(stops) <= 1 \/ ~AllAtStart) => result.status = "ok"

\* the heuristic path has raised on 9 stops at the start location
C26_Witness ==
    /\ pc = "done"
    /\ result.status = "ZeroDivisionError"
    /\ Len(stops) = 9
    /\ AllAtStart

\* C27: a request that reaches the core through optimize_route has stops at
\* "Location 1", "Location 2", ..., pairwise distinct strings; with 2 or
\* more shipment ids, whatever the start location, the chosen route has a
\* total distance of at least 50, the call returns a result (the savings
\* division never divides by zero) and optimized_sequence lists every
\* requested shipment id as often as the request does.
C27_HandlerRequestsSucceed ==
    (pc \in {"called", "done"} /\ "optimize_route" \in calls) =>
        /\ \A i, j \in 1..Len(stops) :
               i # j => stops[i].location # stops[j].location
        /\ (pc = "done" /\ Len(stops) >= 2) =>
               /\ result.status = "ok"
               /\ _calculate_total_distance(chosen_route, start_location)
                      >= 50
               /\ result.total_distance_km >= 5000
               /\ Len(result.optimized_sequence) = Len(stops)
               /\ \A id \in {"s1", "s2"} :
                      CountId(result.optimized_sequence, id)
                          = CountId(stops, id)

\* a request of 10 shipment ids whose start location is the name of its
\* first stop has been answered
C27_Witness ==
    /\ Returned
    /\ "optimize_route" \in calls
    /\ Len(stops) = 10
    /\ start_location = stops[1].location
    /\ stops[10].location = LocPrefix \o <<49, 48>>

\* the reorderings of the input the search is repeated on: every
\* permutation up to 4 stops, the reversed and the rotated list above
Reorderings(n) ==
    IF n <= 4
    THEN {q \in [1..n -> 1..n] : IsPermutation(q, n)}
    ELSE {[k \in 1..n |-> n + 1 - k], [k \in 1..n |-> (k % n) + 1]}

\* C28: for 2 to 8 stops the least total distance _brute_force_optimize
\* finds is the same for every reordering of the input list, and it is
\* never more than the total of the route _nearest_neighbor_optimize builds
\* for the same stops and start.
C28_MinimumOrderIndependent ==
    ExactDone =>
        \E best \in {_calculate_total_distance(chosen_route,
                                               start_location)} :
            /\ Len(stops) \in 2..8
            /\ Returned => result.total_distance_km = 100 * best
            /\ \A q \in Reorderings(Len(stops)) :
                   BruteForceSearch(Reordered(stops, q),
                                    start_location).best_distance = best
            /\ best <= GreedyLoop(stops, <<>>, start_location,
                                  0).total_distance

\* the search has returned a route, and on the same stops listed in
\* another order it finds another route of the same total distance
C28_Witness ==
    /\ ExactDone
    /\ Returned
    /\ Len(stops) = 3
    /\ \E q \in Reorderings(3) :
           LET again == BruteForceSearch(Reordered(stops, q), start_location)
           IN  /\ again.best_route # chosen_route
               /\ 100 * again.best_distance = result.total_distance_km

\* x <= y for two floats
FloatLeq(x, y) ==
    \/ x = y
    \/ \E k \in 1..3 : x[k] < y[k] /\ \A j \in 1..(k - 1) : x[j] = y[j]

\* 2 ^ -40 hours, about 3.3 microseconds
Instant == <<0, 0, 2 ^ 13>>

\* the formatter has returned a result for the current call
Formatted ==
    pc = "done" /\ "_format_route_response" \in calls /\ result.status = "ok"

\* C29 as stated: when the formatter returns, the cumulative time of the
\* last stop is the float total_distance / 60 that total_time_hours is
\* rounded from.
C29_LastArrivalIsTotalTime ==
    Formatted => frame.current_time = frame.total_time

\* C29, amended: the cumulative time never decreases from one pass of the
\* loop to the next, the legs add up to total_distance, and when the
\* formatter returns the cumulative time of the last stop and the float
\* total_distance / 60 lie within 2 ^ -40 hours of each other, so that the
\* arrival offset printed for the last stop and total_time_hours differ by
\* at most 0.05 hours.
C29_LastArrivalNearTotalTime ==
    /\ [][(pc = "formatting" /\ pc' = "formatting") =>
             /\ FloatLeq(frame.current_time, frame'.current_time)
             /\ frame'.idx = frame.idx + 1]_vars
    /\ [](Formatted =>
             /\ frame.idx = Len(stops)
             /\ SumFromPrevious(result.optimized_sequence, Len(stops))
                    = result.total_distance_km
             /\ FloatLeq(frame.current_time,
                         FloatAdd(frame.total_time, Instant))
             /\ FloatLeq(frame.total_time,
                         FloatAdd(frame.current_time, Instant))
             /\ result.optimized_sequence[Len(stops)].estimated_arrival
                    = ArrivalString(frame.current_time)
             /\ 10 * Tenths(frame.current_time) - result.total_time_hours
                    \in -5..5)

\* the formatter has returned with a cumulative time for the last of 3 or
\* more stops that is not the float total_distance / 60
C29_Witness ==
    /\ Formatted
    /\ Len(stops) >= 3
    /\ frame.current_time # frame.total_time

====
